---------------------------- MODULE Spec2Model ----------------------------
(***************************************************************************)
(* A model of src/kdtree.rs: the KD-tree builder (KDTree::new), the        *)
(* nearest-neighbour search (nn_search), insertion (add / add_recursive),  *)
(* persistence (save_to_file / load_from_file) and the tokio RwLock that   *)
(* guards the shared tree.                                                 *)
(*                                                                         *)
(* Coordinates are small naturals (exactly representable as f32, so the    *)
(* f32 arithmetic of the source is exact on them).  Rust's 0-based index i *)
(* is the TLA+ index i+1.  Option<T> is a sequence of length 0 or 1.       *)
(***************************************************************************)
EXTENDS Naturals, Sequences, FiniteSets

VARIABLES
    built,      \* KDTree::new has been called
    data,       \* the batch of points handed to KDTree::new
    ids,        \* the batch of ids handed to KDTree::new
    tree,       \* Option<Box<KDTree>>: the tree behind the shared handle
    lastAdded,  \* Option: the (id, point) of the latest add, and whether point was new
    target,     \* Option: the target of the latest query
    result,     \* Option: what nn_search returned for it
    answer,     \* Option: what nearest_neighbor returned for it
    file,       \* Option: the contents of the file written by save_to_file
    saved,      \* Option: the tree as it was when the file was written (history)
    loaded,     \* Option: the tree load_from_file returned
    pc,         \* per task: where it is in nearest_neighbor / add / save_to_file
    readers,    \* RwLock: the tasks holding a read guard
    writers,    \* RwLock: the tasks holding the write guard
    snap,       \* per task: the tree as it was when the task got its guard (history)
    call,       \* Option: the latest call made with unchecked inputs, and its arguments
    outcome     \* how that call ended: "ok", "none", "panic" or "error"

vars == <<built, data, ids, tree, lastAdded, target, result, answer, file, saved,
          loaded, pc, readers, writers, snap, call, outcome>>

---------------------------------------------------------------------------
(* Bounds of the model *)

\* coordinates range over 0..MaxCoord
MaxCoord == 1
\* a tree holds at most MaxNodes points (batch plus adds)
MaxNodes == 3

Coord == 0..MaxCoord
\* the well-formed points: the dimensionality of the repository's tests
Point == Coord \X Coord

IdNames == <<"a", "b", "c", "d", "e", "f", "g", "h">>

None == <<>>
Some(x) == <<x>>

SeqsUpTo(S, n) == UNION {[1..m -> S] : m \in 0..n}

Min(a, b) == IF a < b THEN a ELSE b

---------------------------------------------------------------------------
(* The tree *)

Node(id, point, left, right, dimension) ==
    [id |-> id, point |-> point, left |-> left, right |-> right,
     dimension |-> dimension]

RECURSIVE Size(_)
Size(t) == IF t = None THEN 0 ELSE 1 + Size(t[1].left) + Size(t[1].right)

RECURSIVE Height(_)
Height(t) ==
    IF t = None THEN 0
    ELSE LET l == Height(t[1].left)
             r == Height(t[1].right)
         IN 1 + (IF l < r THEN r ELSE l)

\* the nodes of a tree, as a sequence (pre-order)
RECURSIVE Nodes(_)
Nodes(t) ==
    IF t = None THEN <<>>
    ELSE <<t[1]>> \o Nodes(t[1].left) \o Nodes(t[1].right)

PointsOf(t) == {Nodes(t)[i].point : i \in 1..Len(Nodes(t))}

---------------------------------------------------------------------------
(* KDTree::new *)

\* data.sort_by(|a, b| a[axis].partial_cmp(&b[axis]).unwrap()): a stable sort
RECURSIVE InsertSorted(_, _, _)
InsertSorted(s, x, axis) ==
    IF Len(s) = 0 THEN <<x>>
    ELSE IF x[axis + 1] < s[Len(s)][axis + 1]
         THEN InsertSorted(SubSeq(s, 1, Len(s) - 1), x, axis) \o <<s[Len(s)]>>
         ELSE s \o <<x>>

RECURSIVE SortByAxis(_, _)
SortByAxis(s, axis) ==
    IF Len(s) = 0 THEN <<>>
    ELSE InsertSorted(SortByAxis(SubSeq(s, 1, Len(s) - 1), axis), s[Len(s)], axis)

\* KDTree::new panics: a zero divisor in depth % k, an index out of bounds in
\* the comparator, in ids[median] or in the slices of ids
RECURSIVE NewPanics(_, _, _)
NewPanics(d, i, depth) ==
    IF Len(d) = 0 THEN FALSE
    ELSE LET k == Len(d[1]) IN
         IF k = 0 THEN TRUE
         ELSE LET axis == depth % k
                  median == Len(d) \div 2
              IN \/ Len(d) >= 2 /\ \E j \in 1..Len(d) : Len(d[j]) <= axis
                 \/ Len(i) <= median
                 \/ LET sorted == SortByAxis(d, axis)
                    IN \/ NewPanics(SubSeq(sorted, 1, median), SubSeq(i, 1, median),
                                    depth + 1)
                       \/ NewPanics(SubSeq(sorted, median + 2, Len(sorted)),
                                    SubSeq(i, median + 2, Len(i)), depth + 1)

\* KDTree::new without the sort
RECURSIVE KDTreeNew_unsorted(_, _, _)
KDTreeNew_unsorted(d, i, depth) ==
    IF Len(d) = 0 THEN None
    ELSE LET k == Len(d[1])
             axis == depth % k
             median == Len(d) \div 2
         IN Some(Node(i[median + 1],
                      d[median + 1],
                      KDTreeNew_unsorted(SubSeq(d, 1, median), SubSeq(i, 1, median),
                                         depth + 1),
                      KDTreeNew_unsorted(SubSeq(d, median + 2, Len(d)),
                                         SubSeq(i, median + 2, Len(i)), depth + 1),
                      axis))

\* KDTree::new splitting at the first element instead of the median
RECURSIVE KDTreeNew_first(_, _, _)
KDTreeNew_first(d, i, depth) ==
    IF Len(d) = 0 THEN None
    ELSE LET k == Len(d[1])
             axis == depth % k
             sorted == SortByAxis(d, axis)
         IN Some(Node(i[1],
                      sorted[1],
                      None,
                      KDTreeNew_first(SubSeq(sorted, 2, Len(sorted)),
                                      SubSeq(i, 2, Len(i)), depth + 1),
                      axis))

RECURSIVE KDTreeNew(_, _, _)
KDTreeNew(d, i, depth) ==
    IF Len(d) = 0 THEN None
    ELSE LET k == Len(d[1])
             axis == depth % k
             sorted == SortByAxis(d, axis)
             median == Len(sorted) \div 2
         IN Some(Node(i[median + 1],
                      sorted[median + 1],
                      KDTreeNew(SubSeq(sorted, 1, median), SubSeq(i, 1, median),
                                depth + 1),
                      KDTreeNew(SubSeq(sorted, median + 2, Len(sorted)),
                                SubSeq(i, median + 2, Len(i)), depth + 1),
                      axis))

---------------------------------------------------------------------------
(* nn_search *)

RECURSIVE SumSq(_, _, _)
SumSq(p1, p2, n) ==
    IF n = 0 THEN 0
    ELSE LET a == p1[n]
             b == p2[n]
             diff == IF a < b THEN b - a ELSE a - b
         IN SumSq(p1, p2, n - 1) + diff * diff

\* zip stops at the shorter of the two points
distance_squared(p1, p2) == SumSq(p1, p2, Min(Len(p1), Len(p2)))

\* Vec<f32>'s `<`: lexicographic, a proper prefix being smaller
RECURSIVE LexLess(_, _)
LexLess(a, b) ==
    IF Len(b) = 0 THEN FALSE
    ELSE IF Len(a) = 0 THEN TRUE
    ELSE IF a[1] < b[1] THEN TRUE
    ELSE IF b[1] < a[1] THEN FALSE
    ELSE LexLess(Tail(a), Tail(b))

Found(id, point, dist) == [panic |-> FALSE, id |-> id, point |-> point, dist |-> dist]
Panicked == [panic |-> TRUE, id |-> "", point |-> <<>>, dist |-> 0]

\* target[axis] or current_point[axis] is out of bounds
IndexPanics(self, tgt) ==
    Len(tgt) <= self.dimension \/ Len(self.point) <= self.dimension

GoesLeft(self, tgt) == tgt[self.dimension + 1] < self.point[self.dimension + 1]

next_branch(self, tgt) == IF GoesLeft(self, tgt) THEN self.left ELSE self.right
other_branch(self, tgt) == IF GoesLeft(self, tgt) THEN self.right ELSE self.left

\* line 66: the test that decides whether the other branch is searched
FarDescends(self, tgt, best) ==
    /\ other_branch(self, tgt) # None
    /\ tgt[self.dimension + 1] * tgt[self.dimension + 1] < best.dist

\* line 68: the test that decides whether the other branch's result is kept
FarReplaces(other_best, best) == LexLess(other_best.point, best.point)

RECURSIVE nn_search(_, _)

\* lines 42-58: the best of the near branch and the node itself
NearBest(self, tgt) ==
    LET current_distance == distance_squared(self.point, tgt)
        here == Found(self.id, self.point, current_distance)
        nb == next_branch(self, tgt)
    IN IF nb = None THEN here
       ELSE LET best == nn_search(nb[1], tgt)
            IN IF best.panic THEN Panicked
               ELSE IF current_distance < best.dist THEN here ELSE best

nn_search(self, tgt) ==
    IF IndexPanics(self, tgt) THEN Panicked
    ELSE LET best == NearBest(self, tgt)
         IN IF best.panic THEN Panicked
            ELSE IF FarDescends(self, tgt, best)
                 THEN LET other_best == nn_search(other_branch(self, tgt)[1], tgt)
                      IN IF other_best.panic THEN Panicked
                         ELSE IF FarReplaces(other_best, best) THEN other_best
                         ELSE best
                 ELSE best

\* the nodes nn_search visits (none of whose index expressions panic)
RECURSIVE Visits(_, _)
Visits(self, tgt) ==
    LET nb == next_branch(self, tgt)
        ob == other_branch(self, tgt)
    IN {self}
         \cup (IF nb = None THEN {} ELSE Visits(nb[1], tgt))
         \cup (IF FarDescends(self, tgt, NearBest(self, tgt))
               THEN Visits(ob[1], tgt) ELSE {})

nearest_neighbor(t, tgt) ==
    LET r == nn_search(t[1], tgt) IN <<r.id, r.point>>

---------------------------------------------------------------------------
(* add / add_recursive *)

RECURSIVE AddPanics(_, _)
AddPanics(self, point) ==
    \/ Len(point) <= self.dimension
    \/ Len(self.point) <= self.dimension
    \/ LET direction == IF GoesLeft(self, point) THEN self.left ELSE self.right
       IN IF direction # None THEN AddPanics(direction[1], point)
          ELSE NewPanics(<<point>>, <<"x">>, 1)

\* add_recursive descending left on `<=` where nn_search descends left on `<`
RECURSIVE add_recursive_le(_, _, _, _)
add_recursive_le(self, id, point, depth) ==
    IF point[self.dimension + 1] <= self.point[self.dimension + 1]
    THEN [self EXCEPT !.left =
            IF self.left # None
            THEN Some(add_recursive_le(self.left[1], id, point, depth + 1))
            ELSE KDTreeNew(<<point>>, <<id>>, depth + 1)]
    ELSE [self EXCEPT !.right =
            IF self.right # None
            THEN Some(add_recursive_le(self.right[1], id, point, depth + 1))
            ELSE KDTreeNew(<<point>>, <<id>>, depth + 1)]

RECURSIVE add_recursive(_, _, _, _)
add_recursive(self, id, point, depth) ==
    IF GoesLeft(self, point)
    THEN [self EXCEPT !.left =
            IF self.left # None
            THEN Some(add_recursive(self.left[1], id, point, depth + 1))
            ELSE KDTreeNew(<<point>>, <<id>>, depth + 1)]
    ELSE [self EXCEPT !.right =
            IF self.right # None
            THEN Some(add_recursive(self.right[1], id, point, depth + 1))
            ELSE KDTreeNew(<<point>>, <<id>>, depth + 1)]

---------------------------------------------------------------------------
(* The sequential specification: build, then add and query *)

Tasks == {"t1", "t2", "t3"}

Init ==
    /\ built = FALSE
    /\ data = <<>>
    /\ ids = <<>>
    /\ tree = None
    /\ lastAdded = None
    /\ target = None
    /\ result = None
    /\ answer = None
    /\ file = None
    /\ saved = None
    /\ loaded = None
    /\ pc = [t \in Tasks |-> "idle"]
    /\ readers = {}
    /\ writers = {}
    /\ snap = [t \in Tasks |-> None]
    /\ call = None
    /\ outcome = "ok"

\* KDTree::new(batch, ids, 0) on a well-formed batch
Build(batch) ==
    /\ ~built
    /\ built' = TRUE
    /\ data' = batch
    /\ ids' = SubSeq(IdNames, 1, Len(batch))
    /\ tree' = KDTreeNew(batch, SubSeq(IdNames, 1, Len(batch)), 0)
    /\ UNCHANGED <<lastAdded, target, result, answer, file, saved, loaded, pc,
                   readers, writers, snap, call, outcome>>

\* KDTree::add(tree, id, point), run alone
Add(point) ==
    /\ built
    /\ tree # None
    /\ Size(tree) < MaxNodes
    /\ LET id == IdNames[Size(tree) + 1]
       IN /\ tree' = Some(add_recursive(tree[1], id, point, 0))
          /\ lastAdded' = Some([id |-> id, point |-> point,
                                fresh |-> point \notin PointsOf(tree)])
    /\ target' = None
    /\ result' = None
    /\ answer' = None
    /\ UNCHANGED <<built, data, ids, file, saved, loaded, pc, readers, writers,
                   snap, call, outcome>>

\* KDTree::nearest_neighbor(tree, target), run alone
Query(q) ==
    /\ built
    /\ tree # None
    /\ target' = Some(q)
    /\ result' = Some(nn_search(tree[1], q))
    /\ answer' = Some(nearest_neighbor(tree, q))
    /\ UNCHANGED <<built, data, ids, tree, lastAdded, file, saved, loaded, pc,
                   readers, writers, snap, call, outcome>>

\* the first call: any batch of well-formed points
BuildAny == ~built /\ \E batch \in SeqsUpTo(Point, MaxNodes) : Build(batch)

Next ==
    \/ BuildAny
    \/ \E p \in Point : Add(p)
    \/ \E q \in Point : Query(q)

Spec == Init /\ [][Next]_vars

---------------------------------------------------------------------------
(* save_to_file / load_from_file: serde_json's text, as a sequence of tokens *)

Tok(kind, str, num) == [kind |-> kind, str |-> str, num |-> num]
ObjOpen == Tok("{", "", 0)
ObjClose == Tok("}", "", 0)
ArrOpen == Tok("[", "", 0)
ArrClose == Tok("]", "", 0)
Null == Tok("null", "", 0)
Key(name) == Tok("key", name, 0)
Str(s) == Tok("str", s, 0)
Num(n) == Tok("num", "", n)

NumToks(point) == [i \in 1..Len(point) |-> Num(point[i])]

\* to_string leaving the axis out of the record (it reads back as 0)
RECURSIVE to_string_noaxis(_)
to_string_noaxis(self) ==
    <<ObjOpen, Key("id"), Str(self.id), Key("point"), ArrOpen>>
        \o NumToks(self.point)
        \o <<ArrClose, Key("left")>>
        \o (IF self.left = None THEN <<Null>> ELSE to_string_noaxis(self.left[1]))
        \o <<Key("right")>>
        \o (IF self.right = None THEN <<Null>> ELSE to_string_noaxis(self.right[1]))
        \o <<Key("dimension"), Num(0), ObjClose>>

\* serde_json::to_string of a KDTree: the fields in the order of the struct
RECURSIVE to_string(_)
to_string(self) ==
    <<ObjOpen, Key("id"), Str(self.id), Key("point"), ArrOpen>>
        \o NumToks(self.point)
        \o <<ArrClose, Key("left")>>
        \o (IF self.left = None THEN <<Null>> ELSE to_string(self.left[1]))
        \o <<Key("right")>>
        \o (IF self.right = None THEN <<Null>> ELSE to_string(self.right[1]))
        \o <<Key("dimension"), Num(self.dimension), ObjClose>>

Parsed(val, rest) == [ok |-> TRUE, val |-> val, rest |-> rest]
ParseError == [ok |-> FALSE, val |-> None, rest |-> <<>>]

Drop(toks, n) == SubSeq(toks, n + 1, Len(toks))
StartsWith(toks, prefix) ==
    Len(toks) >= Len(prefix) /\ SubSeq(toks, 1, Len(prefix)) = prefix

\* the numbers up to the closing bracket
RECURSIVE ParseNums(_)
ParseNums(toks) ==
    IF Len(toks) = 0 THEN ParseError
    ELSE IF toks[1] = ArrClose THEN Parsed(<<>>, Tail(toks))
    ELSE IF toks[1].kind # "num" THEN ParseError
    ELSE LET more == ParseNums(Tail(toks))
         IN IF more.ok THEN Parsed(<<toks[1].num>> \o more.val, more.rest)
            ELSE ParseError

RECURSIVE ParseNode(_)

\* Option<Box<KDTree>>: null or a record
ParseOption(toks) ==
    IF Len(toks) = 0 THEN ParseError
    ELSE IF toks[1] = Null THEN Parsed(None, Tail(toks))
    ELSE LET n == ParseNode(toks)
         IN IF n.ok THEN Parsed(Some(n.val), n.rest) ELSE ParseError

\* a KDTree record: every field is read back from the text
ParseNode(toks) ==
    IF ~(/\ Len(toks) >= 5
         /\ toks[1] = ObjOpen
         /\ toks[2] = Key("id")
         /\ toks[3].kind = "str"
         /\ toks[4] = Key("point")
         /\ toks[5] = ArrOpen)
    THEN ParseError
    ELSE LET point == ParseNums(Drop(toks, 5)) IN
         IF ~(point.ok /\ StartsWith(point.rest, <<Key("left")>>)) THEN ParseError
         ELSE LET left == ParseOption(Tail(point.rest)) IN
              IF ~(left.ok /\ StartsWith(left.rest, <<Key("right")>>)) THEN ParseError
              ELSE LET right == ParseOption(Tail(left.rest)) IN
                   IF ~(/\ right.ok
                        /\ Len(right.rest) >= 3
                        /\ right.rest[1] = Key("dimension")
                        /\ right.rest[2].kind = "num"
                        /\ right.rest[3] = ObjClose)
                   THEN ParseError
                   ELSE Parsed(Node(toks[3].str, point.val, left.val, right.val,
                                    right.rest[2].num),
                               Drop(right.rest, 3))

\* serde_json::from_str::<KDTree>: one record and nothing after it
from_str(toks) ==
    LET n == ParseNode(toks)
    IN IF n.ok /\ n.rest = <<>> THEN n ELSE ParseError

\* save_to_file(tree, filename), run alone
Save ==
    /\ built
    /\ tree # None
    /\ file' = Some(to_string(tree[1]))
    /\ saved' = tree
    /\ loaded' = None
    /\ outcome' = "ok"
    /\ UNCHANGED <<built, data, ids, tree, lastAdded, target, result, answer, pc,
                   readers, writers, snap, call>>

\* load_from_file(filename): a new tree, or an error
Load ==
    /\ LET r == IF file = None THEN ParseError ELSE from_str(file[1])
       IN /\ loaded' = IF r.ok THEN Some(r.val) ELSE None
          /\ outcome' = IF r.ok THEN "ok" ELSE "error"
    /\ UNCHANGED <<built, data, ids, tree, lastAdded, target, result, answer, file,
                   saved, pc, readers, writers, snap, call>>

NextPersist ==
    \/ BuildAny
    \/ \E p \in Point : Add(p)
    \/ Save
    \/ Load

SpecPersist == Init /\ [][NextPersist]_vars

---------------------------------------------------------------------------
(* The concurrent specification: tasks sharing the tree through the RwLock.
   A task suspends only where it awaits the lock; what it does while it holds
   a guard runs on its own thread, beside the other tasks. *)

\* the points the tasks query and add: the diagonal, as in the repository's tests
TaskPoint == {<<c, c>> : c \in Coord}

\* a read guard granted whatever the lock's state
ReadGrantable_always == TRUE

\* tree.read().await returns: no task holds the write guard
ReadGrantable == writers = {}

\* a write guard granted beside read guards
WriteGrantable_beside_readers == writers = {}

\* tree.write().await returns: no task holds any guard
WriteGrantable == writers = {} /\ readers = {}

Goto(t, where) == pc' = [pc EXCEPT ![t] = where]

\* nearest_neighbor, line 100
QueryAcquire(t) ==
    /\ built
    /\ pc[t] = "idle"
    /\ ReadGrantable
    /\ readers' = readers \cup {t}
    /\ snap' = [snap EXCEPT ![t] = tree]
    /\ Goto(t, "query_hold")
    /\ UNCHANGED <<built, data, ids, tree, lastAdded, target, result, answer, file,
                   saved, loaded, writers, call, outcome>>

\* nearest_neighbor, lines 101-102
QuerySearch(t, q) ==
    /\ pc[t] = "query_hold"
    /\ target' = Some(q)
    /\ result' = Some(nn_search(tree[1], q))
    /\ answer' = Some(nearest_neighbor(tree, q))
    /\ Goto(t, "query_done")
    /\ UNCHANGED <<built, data, ids, tree, lastAdded, file, saved, loaded, readers,
                   writers, snap, call, outcome>>

\* nearest_neighbor, line 103: the read guard is dropped
QueryRelease(t) ==
    /\ pc[t] = "query_done"
    /\ readers' = readers \ {t}
    /\ snap' = [snap EXCEPT ![t] = None]
    /\ Goto(t, "idle")
    /\ UNCHANGED <<built, data, ids, tree, lastAdded, target, result, answer, file,
                   saved, loaded, writers, call, outcome>>

\* add, line 106
AddAcquire(t) ==
    /\ built
    /\ pc[t] = "idle"
    /\ Size(tree) < MaxNodes
    /\ WriteGrantable
    /\ writers' = writers \cup {t}
    /\ snap' = [snap EXCEPT ![t] = tree]
    /\ Goto(t, "add_hold")
    /\ UNCHANGED <<built, data, ids, tree, lastAdded, target, result, answer, file,
                   saved, loaded, readers, call, outcome>>

\* add, line 107
AddInsert(t, point) ==
    /\ pc[t] = "add_hold"
    /\ Size(tree) < MaxNodes
    /\ LET id == IdNames[Size(tree) + 1]
       IN /\ tree' = Some(add_recursive(tree[1], id, point, 0))
          /\ lastAdded' = Some([id |-> id, point |-> point,
                                fresh |-> point \notin PointsOf(tree)])
    /\ target' = None
    /\ result' = None
    /\ answer' = None
    /\ Goto(t, "add_done")
    /\ UNCHANGED <<built, data, ids, file, saved, loaded, readers, writers, snap,
                   call, outcome>>

\* add, line 108: the write guard is dropped
AddRelease(t) ==
    /\ pc[t] = "add_done"
    /\ writers' = writers \ {t}
    /\ snap' = [snap EXCEPT ![t] = None]
    /\ Goto(t, "idle")
    /\ UNCHANGED <<built, data, ids, tree, lastAdded, target, result, answer, file,
                   saved, loaded, readers, call, outcome>>

\* save_to_file, line 84: a read guard
SaveAcquire(t) ==
    /\ built
    /\ pc[t] = "idle"
    /\ ReadGrantable
    /\ readers' = readers \cup {t}
    /\ snap' = [snap EXCEPT ![t] = tree]
    /\ Goto(t, "save_hold")
    /\ UNCHANGED <<built, data, ids, tree, lastAdded, target, result, answer, file,
                   saved, loaded, writers, call, outcome>>

\* save_to_file, lines 85-87
SaveWrite(t) ==
    /\ pc[t] = "save_hold"
    /\ file' = Some(to_string(tree[1]))
    /\ saved' = tree
    /\ loaded' = None
    /\ Goto(t, "save_done")
    /\ UNCHANGED <<built, data, ids, tree, lastAdded, target, result, answer,
                   readers, writers, snap, call, outcome>>

\* save_to_file, lines 88-89: the read guard is dropped
SaveRelease(t) ==
    /\ pc[t] = "save_done"
    /\ readers' = readers \ {t}
    /\ snap' = [snap EXCEPT ![t] = None]
    /\ Goto(t, "idle")
    /\ UNCHANGED <<built, data, ids, tree, lastAdded, target, result, answer, file,
                   saved, loaded, writers, call, outcome>>

\* the handle is made around a tree of one point
BuildOne == ~built /\ \E p \in TaskPoint : Build(<<p>>)

NextConc ==
    \/ BuildOne
    \/ \E t \in Tasks : QueryAcquire(t)
    \/ \E t \in Tasks, q \in TaskPoint : QuerySearch(t, q)
    \/ \E t \in Tasks : QueryRelease(t)
    \/ \E t \in Tasks : AddAcquire(t)
    \/ \E t \in Tasks, p \in TaskPoint : AddInsert(t, p)
    \/ \E t \in Tasks : AddRelease(t)
    \/ \E t \in Tasks : SaveAcquire(t)
    \/ \E t \in Tasks : SaveWrite(t)
    \/ \E t \in Tasks : SaveRelease(t)

SpecConc == Init /\ [][NextConc]_vars

---------------------------------------------------------------------------
(* The specification of unchecked inputs: the same operations, called with
   batches and points of any length *)

\* a point has at most MaxLen coordinates
MaxLen == 3
\* a batch has at most MaxBatch points, and adds stop at as many
MaxBatch == 2

RaggedPoint == SeqsUpTo(Coord, MaxLen)

\* KDTree::new(batch, ids, 0) on any batch and any ids
NewCall(batch, idlist) ==
    /\ ~built
    /\ call = None
    /\ call' = Some([op |-> "new", args |-> <<batch, idlist>>])
    /\ IF NewPanics(batch, idlist, 0)
       THEN /\ outcome' = "panic"
            /\ UNCHANGED <<built, data, ids, tree>>
       ELSE /\ outcome' = IF Len(batch) = 0 THEN "none" ELSE "ok"
            /\ built' = TRUE
            /\ data' = batch
            /\ ids' = idlist
            /\ tree' = KDTreeNew(batch, idlist, 0)
    /\ UNCHANGED <<lastAdded, target, result, answer, file, saved, loaded, pc,
                   readers, writers, snap>>

\* KDTree::nearest_neighbor(tree, target) on a target of any length
NearestCall(tgt) ==
    /\ built
    /\ tree # None
    /\ outcome # "panic"
    /\ call' = Some([op |-> "nearest_neighbor", args |-> <<tgt>>])
    /\ target' = Some(tgt)
    /\ LET r == nn_search(tree[1], tgt)
       IN IF r.panic
          THEN /\ outcome' = "panic"
               /\ UNCHANGED <<result, answer>>
          ELSE /\ outcome' = "ok"
               /\ result' = Some(r)
               /\ answer' = Some(<<r.id, r.point>>)
    /\ UNCHANGED <<built, data, ids, tree, lastAdded, file, saved, loaded, pc,
                   readers, writers, snap>>

\* KDTree::add(tree, id, point) on a point of any length
AddCall(point) ==
    /\ built
    /\ tree # None
    /\ outcome # "panic"
    /\ Size(tree) < MaxBatch
    /\ call' = Some([op |-> "add", args |-> <<point>>])
    /\ IF AddPanics(tree[1], point)
       THEN /\ outcome' = "panic"
            /\ UNCHANGED <<tree, lastAdded>>
       ELSE /\ outcome' = "ok"
            /\ LET id == IdNames[Size(tree) + 1]
               IN /\ tree' = Some(add_recursive(tree[1], id, point, 0))
                  /\ lastAdded' = Some([id |-> id, point |-> point,
                                        fresh |-> point \notin PointsOf(tree)])
    /\ target' = None
    /\ result' = None
    /\ answer' = None
    /\ UNCHANGED <<built, data, ids, file, saved, loaded, pc, readers, writers,
                   snap>>

\* the first call: any batch of any points, with any number of ids
NewAny ==
    /\ ~built
    /\ call = None
    /\ \E batch \in SeqsUpTo(RaggedPoint, MaxBatch), m \in 0..(MaxBatch + 1) :
          NewCall(batch, SubSeq(IdNames, 1, m))

NextUnchecked ==
    \/ NewAny
    \/ \E q \in RaggedPoint : NearestCall(q)
    \/ \E p \in RaggedPoint : AddCall(p)

SpecUnchecked == Init /\ [][NextUnchecked]_vars

---------------------------------------------------------------------------
(* Properties of the sequential specification *)

Sq(a, b) == IF a < b THEN (b - a) * (b - a) ELSE (a - b) * (a - b)

\* the result of a linear scan: the least squared distance from q to a stored point
BruteMin(t, q) ==
    LET ds == {distance_squared(p, q) : p \in PointsOf(t)}
    IN CHOOSE d \in ds : \A e \in ds : d <= e

RECURSIVE PartitionOK(_)
PartitionOK(t) ==
    \/ t = None
    \/ LET n == t[1]
           a == n.dimension + 1
       IN /\ \A p \in PointsOf(n.left) : p[a] <= n.point[a]
          /\ \A p \in PointsOf(n.right) : p[a] >= n.point[a]
          /\ PartitionOK(n.left)
          /\ PartitionOK(n.right)

\* every node's left subtree holds len/2 of the len points of its slice
RECURSIVE MedianSplit(_)
MedianSplit(t) ==
    \/ t = None
    \/ /\ Size(t[1].left) = Size(t) \div 2
       /\ MedianSplit(t[1].left)
       /\ MedianSplit(t[1].right)

Count(s, x) == Cardinality({i \in 1..Len(s) : s[i] = x})

StoredPairs(t) == [i \in 1..Len(Nodes(t)) |-> <<Nodes(t)[i].id, Nodes(t)[i].point>>]
InputPairs == [i \in 1..Len(data) |-> <<ids[i], data[i]>>]

\* the least h with 2^h >= n, that is, the ceiling of log2(n)
RECURSIVE Pow2(_)
Pow2(h) == IF h = 0 THEN 1 ELSE 2 * Pow2(h - 1)
CeilLog2(n) == CHOOSE h \in 0..n : Pow2(h) >= n /\ \A g \in 0..n : Pow2(g) >= n => h <= g

Distinct(s) == \A i, j \in 1..Len(s) : s[i] = s[j] => i = j

JustBuilt == built /\ lastAdded = None

(* C1: exactness of search.  For every tree built by KDTree::new(batch, ids, 0)
   and extended by adds, and every query q, nn_search returns the least squared
   distance from q to a stored point, and the returned point is a stored point
   at that distance. *)
C1_SearchExact ==
    result # None =>
        LET r == result[1]
            q == target[1]
        IN /\ r.dist = BruteMin(tree, q)
           /\ r.point \in PointsOf(tree)
           /\ distance_squared(r.point, q) = r.dist

(* C2: the builder keeps ids attached to their points.  The multiset of
   (id, point) pairs stored in the tree KDTree::new returns is the multiset of
   the input pairs (ids[i], data[i]), and each node is the upper median
   (index len/2) of its slice sorted by the node's axis. *)
C2_PairsKept ==
    JustBuilt =>
        /\ \A x \in {InputPairs[i] : i \in 1..Len(data)}
                \cup {StoredPairs(tree)[i] : i \in 1..Size(tree)} :
              Count(StoredPairs(tree), x) = Count(InputPairs, x)
        /\ MedianSplit(tree)
        /\ PartitionOK(tree)

(* C3: insertion reachability.  After add(T, id, p) with p not equal to any
   point stored before, nearest_neighbor(T, p) returns exactly (id, p). *)
C3_InsertReachable ==
    (/\ answer # None
     /\ lastAdded # None
     /\ lastAdded[1].fresh
     /\ target = Some(lastAdded[1].point))
        => answer[1] = <<lastAdded[1].id, lastAdded[1].point>>

C3_Witness ==
    /\ answer # None
    /\ lastAdded # None
    /\ lastAdded[1].fresh
    /\ target = Some(lastAdded[1].point)
    /\ Size(tree) >= 3
    /\ answer[1] = <<lastAdded[1].id, lastAdded[1].point>>

(* C8: the partition invariant.  In every tree reachable by KDTree::new(batch,
   ids, 0) followed by adds, for every node N with axis a, every point of N's
   left subtree has coordinate a <= N.point[a] and every point of N's right
   subtree has coordinate a >= N.point[a]. *)
C8_Partition == built => PartitionOK(tree)

C8_Witness ==
    /\ built
    /\ lastAdded # None
    /\ Len(data) >= 2
    /\ Size(tree) > Len(data)
    /\ Height(tree) >= 3
    /\ PartitionOK(tree)

(* C9: balance.  For a batch of n >= 1 distinct points KDTree::new(batch, ids,
   0) returns a tree of height ceil(log2(n+1)) (counted in nodes), never n for
   n >= 3; a batch of one point yields a leaf; an empty batch yields no tree. *)
C9_Balance ==
    (JustBuilt /\ Distinct(data)) =>
        LET n == Len(data)
        IN /\ n = 0 => tree = None
           /\ n >= 1 => tree # None /\ Height(tree) = CeilLog2(n + 1)
           /\ n >= 3 => Height(tree) # n
           /\ n = 1 => tree[1].left = None /\ tree[1].right = None

C9_Witness ==
    /\ JustBuilt
    /\ Distinct(data)
    /\ Len(data) = 3
    /\ Height(tree) = 2

(* C10: the far-branch pruning rule.  At every node N visited by nn_search
   with query q, axis a and best squared distance b of the near path and N,
   the far child is searched if and only if it is present and
   (q[a] - N.point[a])^2 < b; and its result replaces the best only if its
   squared distance is smaller. *)
C10_PruningRule ==
    result # None =>
        \A n \in Visits(tree[1], target[1]) :
            LET q == target[1]
                a == n.dimension + 1
                b == NearBest(n, q)
                ob == other_branch(n, q)
            IN /\ FarDescends(n, q, b) <=> (ob # None /\ Sq(q[a], n.point[a]) < b.dist)
               /\ FarDescends(n, q, b) =>
                    (FarReplaces(nn_search(ob[1], q), b)
                        => nn_search(ob[1], q).dist < b.dist)

(* C4: the persistence round trip.  load_from_file applied to what
   save_to_file wrote yields a tree with the same id, point, stored axis and
   left/right presence at every node as the tree saved, so every query gives
   the same answer on both. *)
C4_RoundTrip ==
    loaded # None =>
        /\ outcome = "ok"
        /\ loaded = saved
        /\ \A q \in Point : nn_search(loaded[1], q) = nn_search(saved[1], q)

C4_Witness ==
    /\ loaded # None
    /\ loaded = saved
    /\ lastAdded # None
    /\ Size(loaded) >= 3
    /\ \E i \in 1..Size(loaded) : Nodes(loaded)[i].dimension = 1

---------------------------------------------------------------------------
(* Properties of the concurrent specification *)

Querying(t) == pc[t] \in {"query_hold", "query_done"}
Adding(t) == pc[t] \in {"add_hold", "add_done"}
Saving(t) == pc[t] \in {"save_hold", "save_done"}

(* C5, as claimed: save is exclusive.  While a save_to_file holds the lock no
   nearest_neighbor, no add and no other save_to_file holds access to the
   same tree. *)
C5_SaveExclusive ==
    \A t \in Tasks : Saving(t) => \A u \in Tasks \ {t} : pc[u] = "idle"

(* C5, amended: save_to_file holds the shared (read) guard for the whole
   serialization.  While a save is in progress no add holds access and the
   tree is the one the save found when it got its guard, so what it wrote is
   the text of that tree; queries and other saves may hold read access at the
   same time. *)
C5_SaveShared ==
    \A t \in Tasks :
        Saving(t) =>
            /\ t \in readers
            /\ \A u \in Tasks : ~Adding(u)
            /\ snap[t] = tree
            /\ pc[t] = "save_done" => file = Some(to_string(snap[t][1]))

C5_Witness ==
    \E t, u \in Tasks :
        /\ pc[t] = "save_done"
        /\ Querying(u)
        /\ lastAdded # None
        /\ file = Some(to_string(tree[1]))

(* C6: readers or one writer.  An add never holds access at the same time as
   a query or another add, and throughout a query's hold the tree is the one
   the query found when it got its guard (no add, whole or partial, is seen
   in between); several queries may hold read access together. *)
C6_ReadersOrWriter ==
    /\ \A t \in Tasks :
          Adding(t) => \A u \in Tasks \ {t} : ~Querying(u) /\ ~Adding(u)
    /\ \A t \in Tasks : Querying(t) => snap[t] = tree
    /\ \A t \in Tasks : pc[t] = "add_hold" => snap[t] = tree

C6_Witness ==
    \E t, u \in Tasks :
        /\ t # u
        /\ Querying(t)
        /\ Querying(u)
        /\ lastAdded # None
        /\ Size(tree) >= 2

---------------------------------------------------------------------------
(* Properties of the specification of unchecked inputs *)

\* the input contract of KDTree::new: parallel batches, points of one length
BatchViolates(batch, idlist) ==
    \/ Len(batch) # Len(idlist)
    \/ \E i, j \in 1..Len(batch) : Len(batch[i]) # Len(batch[j])

\* the input contract of nearest_neighbor and add: a point of the tree's k
PointViolates(t, point) == Len(point) # Len(t[1].point)

\* the latest call broke its input contract (add leaves the root's point alone)
CallViolates ==
    IF call[1].op = "new"
    THEN BatchViolates(call[1].args[1], call[1].args[2])
    ELSE PointViolates(tree, call[1].args[1])

(* C7: input-contract violations are reported as error results.  KDTree::new
   with batches of different lengths or points of inconsistent length, and
   nearest_neighbor or add with a point whose length is not the tree's k, do
   not panic and do not return a normal result. *)
C7_TypedErrors ==
    (call # None /\ CallViolates) => outcome \notin {"panic", "ok"}

===========================================================================
